---- MODULE Spec2Model ----
(***************************************************************************)
(* Heat-pump tank simulation of CMM3-Coursework: Simulator.euler,           *)
(* Simulator.calculate_performance, Simulator.store_values and the         *)
(* formulae library, as a state machine.                                   *)
(*                                                                         *)
(* Numbers.  The program computes in IEEE doubles.  The model computes in  *)
(* exact rationals <<n, d>> (d > 0, lowest terms), extended by the three   *)
(* non-finite doubles: <<1,0>> = +inf, <<-1,0>> = -inf, <<0,0>> = nan.      *)
(* Rounding error and the sign of zero are not modelled.                   *)
(***************************************************************************)
EXTENDS Integers, Sequences, FiniteSets, TLC

\* ------------------------------------------------------------------ numbers

Abs(n) == IF n < 0 THEN -n ELSE n

Sgn(n) == IF n < 0 THEN -1 ELSE IF n > 0 THEN 1 ELSE 0

RECURSIVE GCD(_, _)
GCD(a, b) == IF b = 0 THEN a ELSE GCD(b, a % b)

LCM(a, b) == (a \div GCD(a, b)) * b

\* n/d in lowest terms, d # 0
Norm(n, d) ==
    LET g == GCD(Abs(n), Abs(d))
    IN  IF d < 0 THEN <<(-n) \div g, (-d) \div g>> ELSE <<n \div g, d \div g>>

I(n) == <<n, 1>>

Zero == <<0, 1>>

PosInf == <<1, 0>>

NegInf == <<-1, 0>>

NaN == <<0, 0>>

\* Python None
None == <<>>

IsFinite(x) == x[2] # 0

IsNaN(x) == x = NaN

Neg(x) == <<-x[1], x[2]>>

Add(x, y) ==
    IF IsFinite(x) /\ IsFinite(y)
    THEN LET l == LCM(x[2], y[2])
         IN  Norm(x[1] * (l \div x[2]) + y[1] * (l \div y[2]), l)
    ELSE IF IsNaN(x) \/ IsNaN(y) THEN NaN
    ELSE IF IsFinite(x) THEN y
    ELSE IF IsFinite(y) THEN x
    ELSE IF x = y THEN x ELSE NaN

Sub(x, y) == Add(x, Neg(y))

Mul(x, y) ==
    IF IsFinite(x) /\ IsFinite(y)
    THEN IF x[1] = 0 \/ y[1] = 0 THEN Zero
         ELSE LET g1 == GCD(Abs(x[1]), y[2])
                  g2 == GCD(Abs(y[1]), x[2])
              IN  <<(x[1] \div g1) * (y[1] \div g2), (x[2] \div g2) * (y[2] \div g1)>>
    ELSE IF IsNaN(x) \/ IsNaN(y) THEN NaN
    ELSE IF x = Zero \/ y = Zero THEN NaN
    ELSE <<Sgn(x[1]) * Sgn(y[1]), 0>>

\* x < y as floats compare: every comparison with nan is false
Lt(x, y) ==
    IF IsNaN(x) \/ IsNaN(y) THEN FALSE
    ELSE IF IsFinite(x) /\ IsFinite(y)
    THEN LET l == LCM(x[2], y[2])
         IN  x[1] * (l \div x[2]) < y[1] * (l \div y[2])
    ELSE IF IsFinite(x) THEN y = PosInf
    ELSE IF IsFinite(y) THEN x = NegInf
    ELSE x = NegInf /\ y = PosInf

Le(x, y) == ~IsNaN(x) /\ ~IsNaN(y) /\ ~Lt(y, x)

Gt(x, y) == Lt(y, x)

Ge(x, y) == Le(y, x)

\* 1/y for finite y # 0
Inv(y) == IF y[1] < 0 THEN <<-y[2], -y[1]>> ELSE <<y[2], y[1]>>

\* x / y on numpy.float64 operands: a zero divisor gives inf or nan (with a
\* RuntimeWarning), never an exception
NpDiv(x, y) ==
    IF IsNaN(x) \/ IsNaN(y) THEN NaN
    ELSE IF ~IsFinite(y) THEN (IF IsFinite(x) THEN Zero ELSE NaN)
    ELSE IF y = Zero
    THEN (IF x = Zero THEN NaN ELSE <<Sgn(x[1]), 0>>)
    ELSE Mul(x, Inv(y))

\* x / y on Python floats, defined where Python does not raise ZeroDivisionError
PyDiv(x, y) == NpDiv(x, y)

\* whether x / y on Python numbers raises ZeroDivisionError
PyDivRaises(x, y) == y = Zero

\* a temperature given in hundredths of a kelvin
K(c) == Norm(c, 100)

\* ------------------------------------------------- program constants

SecondsPerHour == 3600

WaterSpecificHeat == 4186

DefaultTinlet == 300

WaterDensity == 1000

\* 65 + 273.15, the condenser temperature the COP is evaluated at
CondenserK == Add(I(65), K(27315))

\* 273.15, Kelvin to Celsius in the result record
KelvinOffset == K(27315)

\* Main.py: RHratio = 2
RHratio == I(2)

DHWOffSentinel == "DHW Simulation Off"

\* ------------------------------------------------- Data.InputValues

\* InputValues.value, lines 71-82: the exception the lookup raises, with the key
\* its message names, or "none"
value_raises(iv, ValueType, ValueName) ==
    IF iv = None THEN [error |-> "ValueError", names |-> "Input Data not Loaded"]
    ELSE IF ValueType \notin DOMAIN iv
         THEN [error |-> "KeyError", names |-> ValueType]
    ELSE IF ValueName \notin DOMAIN iv[ValueType]
         THEN [error |-> "KeyError", names |-> ValueName]
    ELSE [error |-> "none", names |-> ""]

\* InputValues.value, line 85, when nothing was raised:
\* self.data[ValueType][ValueName].get("value", None)
value(iv, ValueType, ValueName) ==
    IF "value" \in DOMAIN iv[ValueType][ValueName]
    THEN iv[ValueType][ValueName].value
    ELSE None

\* ------------------------------------------------- Simulator.formulae

COP(deltaT, a, b) == Add(a, NpDiv(b, deltaT))

CalculateQload(iv, Tamb) ==
    LET Aw  == value(iv, "building_properties", "wall_area")
        Uw  == value(iv, "building_properties", "wall_U_value")
        Ar  == value(iv, "building_properties", "roof_area")
        Ur  == value(iv, "building_properties", "roof_U_value")
        Tsp == value(iv, "building_properties", "indoor_setpoint_temperature_K")
        Qload == Add(Mul(Mul(Aw, Uw), Sub(Tamb, Tsp)), Mul(Mul(Ar, Ur), Sub(Tamb, Tsp)))
    IN  Mul(I(-1), Qload)

CalculateQtransfer(iv, Ttank) ==
    LET Ucond == value(iv, "heat_pump", "overall_heat_transfer_coefficient")
        Acond == value(iv, "heat_pump", "heat_transfer_area")
        Tcond == value(iv, "heat_pump", "fixed_condenser_temperature_K")
    IN  Mul(Mul(Ucond, Acond), Sub(Tcond, Ttank))

CalculateQloss(iv, Atank, Ttank, Tambient) ==
    LET Uloss == value(iv, "hot_water_tank", "heat_loss_coefficient")
    IN  Mul(Mul(Uloss, Atank), Sub(Ttank, Tambient))

vol_calc(iv) == NpDiv(value(iv, "hot_water_tank", "mass_of_water"), I(WaterDensity))

\* tank_SA = 2*pi*r*h + 2*pi*r^2 with r = (V / (pi * RHratio))^(1/3), h = RHratio * r.
\* For RHratio = 2 that is 6*pi*(V/(2*pi))^(2/3): irrational, and proportional to
\* V^(2/3).  The model carries it as a rational on the volumes it uses: 19/10 m^2
\* at V = 1/5 m^3 (1.893...), hence four times that at V = 8/5 m^3.
tank_SA(iv, ratio) ==
    LET tank_vol == vol_calc(iv)
    IN  IF tank_vol = Norm(8, 5) THEN Norm(38, 5) ELSE Norm(19, 10)

\* a product that scales a list element by element, as it does an array
PySeqMul_scaled(s, n) ==
    [kind |-> s.kind, items |-> [j \in DOMAIN s.items |-> Mul(s.items[j], I(n))]]

\* Python list (or numpy array) * n.  A list is repeated n times; an array is
\* scaled element by element.  Sequences of the program are functions on 0..len-1.
PySeqLen(s) == Cardinality(DOMAIN s.items)

PySeqMul(s, n) ==
    IF s.kind = "list"
    THEN [kind |-> "list",
          items |-> [j \in 0..(PySeqLen(s) * n - 1) |-> s.items[j % PySeqLen(s)]]]
    ELSE [kind |-> "ndarray", items |-> [j \in DOMAIN s.items |-> Mul(s.items[j], I(n))]]

\* an accumulation that weighs each interval with the sample at its start
RECURSIVE IntegralLoop_prev(_, _, _, _)
IntegralLoop_prev(values, times, k, total) ==
    IF k >= Cardinality(DOMAIN values) THEN total
    ELSE IntegralLoop_prev(values, times, k + 1,
                           Add(total, Mul(values[k - 1], Sub(times[k], times[k - 1]))))

\* the accumulation loop shared by the three energy integrals:
\* for i in range(from, len(values)): total += values[i] * (times[i] - times[i-1])
RECURSIVE IntegralLoop(_, _, _, _)
IntegralLoop(values, times, k, total) ==
    IF k >= Cardinality(DOMAIN values) THEN total
    ELSE IntegralLoop(values, times, k + 1,
                      Add(total, Mul(values[k], Sub(times[k], times[k - 1]))))

calculate_total_energy_consumption(Pin_values, tv) ==
    LET scaled == PySeqMul(tv, SecondsPerHour)
    IN  IntegralLoop(Pin_values, scaled.items, 1, Zero)

calculate_total_heat_transfer(qtransfer, tv) ==
    LET scaled == PySeqMul(tv, SecondsPerHour)
    IN  IntegralLoop(qtransfer, scaled.items, 1, Zero)

calculate_total_heat_loss(heatloss, tv) ==
    LET scaled == PySeqMul(tv, SecondsPerHour)
    IN  IntegralLoop(heatloss, scaled.items, 1, Zero)

\* a division that never raises (IEEE semantics instead of Python's)
calculate_total_eff_silent(total_load, total_qtransfer) == FALSE

\* (total_load / total_qtransfer) * 100 on Python floats; raises when the divisor is 0
calculate_total_eff_raises(total_load, total_qtransfer) ==
    PyDivRaises(total_load, total_qtransfer)

calculate_total_eff(total_load, total_qtransfer) ==
    Mul(PyDiv(total_load, total_qtransfer), I(100))

\* Python max over a non-empty list: keeps the first element and replaces it by
\* each later element that compares greater (a nan never compares greater)
RECURSIVE PyMaxLoop(_, _, _)
PyMaxLoop(xs, k, best) ==
    IF k >= Cardinality(DOMAIN xs) THEN best
    ELSE PyMaxLoop(xs, k + 1, IF Gt(xs[k], best) THEN xs[k] ELSE best)

PyMax(xs) == PyMaxLoop(xs, 1, xs[0])

\* the largest product of a power input and the COP of the same index
RECURSIVE PointwiseMaxLoop(_, _, _, _)
PointwiseMaxLoop(Pin, cop, k, best) ==
    IF k >= Cardinality(DOMAIN Pin) THEN best
    ELSE PointwiseMaxLoop(Pin, cop, k + 1,
                          IF Gt(Mul(Pin[k], cop[k]), best) THEN Mul(Pin[k], cop[k])
                          ELSE best)

Qmax_pointwise(Pin, cop) == PointwiseMaxLoop(Pin, cop, 1, Mul(Pin[0], cop[0]))

\* formulae.Qmax: max(Pin) * max(COP)
Qmax(Pin, cop) == Mul(PyMax(Pin), PyMax(cop))

\* ------------------------------------------------- bounds and inputs

\* largest number of time points of a run
MaxPoints == 4

\* largest number of runs of one behaviour
MaxRuns == 2

\* (on threshold, off threshold): ordered, and not ordered
Thresholds == { <<K(31315), K(33315)>>, <<K(33315), K(31315)>> }

InitialTemps == { K(30315), K(31315), K(31815), K(33315) }

\* the ambient interpolant, hours -> kelvin, as base + slope * hours
AmbientProfiles ==
    { [base |-> K(28000), slope |-> Zero], [base |-> K(28000), slope |-> K(5815)] }

\* (wall_area, roof_area)
BuildingAreas == { <<Zero, Zero>>, <<I(2), I(1)>> }

LossCoefficients == { Zero, Norm(5, 19) }

WaterMasses == { I(200), I(1600) }

\* (total_time_seconds, time_points): half-hour steps, over the shortest and
\* the longest run, and the degenerate grids
TimeGrids ==
    { <<I(1800 * (n - 1)), n>> : n \in {2, MaxPoints} }
    \cup { <<I(7200), n>> : n \in {-1, 0, 1} }
    \cup { <<Zero, 3>>, <<I(7200), 3>> }

\* overall_heat_transfer_coefficient
TransferCoefficients == { I(2), I(8) }

\* (fit_a, fit_b) of the performance model after get_cop_parameters: the fitted
\* pair, or both unset when the fit failed and its exception was printed
Fits == { <<I(3), Zero>>, <<I(1), K(5815)>>, <<None, None>> }

\* the draw-off interpolant generated under the fixed seed, hours -> kg/s: the
\* given flow over [start, stop) and none outside.  The flow is kept small so
\* that the tank temperatures of a run stay within the integers TLC computes with.
SeededProfile == [start |-> Zero, stop |-> Norm(1, 4), rate |-> Norm(1, 8372)]

\* the interpolant of a profile drawn from another state of the generator
UnseededProfile == [start |-> Norm(1, 4), stop |-> Norm(1, 2), rate |-> Norm(1, 8372)]

\* one parameter of inputs.yaml: a mapping with a "value" field
Entry(x) == [value |-> x]

InputData(th, Ti, areas, Uc, Ul, m, grid) ==
    [ heat_pump |->
        [ off_temperature_threshold_K |-> Entry(th[2]),
          on_temperature_threshold_K |-> Entry(th[1]),
          overall_heat_transfer_coefficient |-> Entry(Uc),
          heat_transfer_area |-> Entry(Norm(1, 2)),
          fixed_condenser_temperature_K |-> Entry(K(33815)) ],
      simulation_parameters |->
        [ total_time_seconds |-> Entry(grid[1]), time_points |-> Entry(grid[2]) ],
      initial_conditions |-> [ initial_tank_temperature_K |-> Entry(Ti) ],
      building_properties |->
        [ wall_area |-> Entry(areas[1]), wall_U_value |-> Entry(Norm(1, 2)),
          roof_area |-> Entry(areas[2]), roof_U_value |-> Entry(I(1)),
          indoor_setpoint_temperature_K |-> Entry(K(29315)) ],
      hot_water_tank |->
        [ heat_loss_coefficient |-> Entry(Ul), total_thermal_capacity |-> Entry(I(3600)),
          mass_of_water |-> Entry(m) ] ]

\* ------------------------------------------------- state

VARIABLES
    inputValues,        \* Simulator.inputValues.data
    interpolated_data,  \* Simulator.interpolated_data, the ambient interpolant
    fit_a, fit_b,       \* Simulator.fit_a, Simulator.fit_b
    DHW,                \* Simulator.DHW
    T_off, T_on, total_time, num_points, time_values, step_size, T_inlet,
    initial_tank_temp, initial_pump_status,   \* attributes set by euler
    pc,                 \* where simulate() is: "idle", "euler", "performance", "store"
    i,                  \* loop index of euler
    pump_status, Ttank_values, cop_values, heat_load_values, heat_loss_values,
    Pin_values, Qtransfer_values, QDHW_values, dhw_interp_profile, Atank,
    status_values,      \* history: pump_status after the update of each step
    QDHW_step,          \* history: the local QDHW of each step
    time_hours, QDHWReturn,                   \* euler's returned time list and DHW field
    total_energy, total_qtransfer, hl_tot, total_eff, max_out,
    raised,             \* the exception the last simulate() ended with, or "none"
    results_file,       \* Data/simulation_results.json
    runs,               \* simulate() calls so far
    fn, arg_values, arg_times, result,    \* one call of an energy integral
    ValueType, ValueName,                 \* the arguments of one call of value()
    events,                               \* the random draws of one call of dhw_profile()
    rng,                \* numpy's global generator: draws made since np.random.seed(42),
                        \* or -1 for a state no seeding with 42 leads to
    generations         \* history: calls of dhw_profile() so far

selfvars == <<T_off, T_on, total_time, num_points, time_values, step_size, T_inlet,
              initial_tank_temp, initial_pump_status>>

loopvars == <<i, pump_status, Ttank_values, cop_values, heat_load_values,
              heat_loss_values, Pin_values, Qtransfer_values, QDHW_values,
              dhw_interp_profile, Atank, status_values, QDHW_step>>

perfvars == <<total_energy, total_qtransfer, hl_tot, total_eff, max_out>>

objvars == <<inputValues, interpolated_data, fit_a, fit_b, DHW>>

callvars == <<fn, arg_values, arg_times, result, ValueType, ValueName, events>>

rngvars == <<rng, generations>>

vars == <<objvars, selfvars, pc, loopvars, time_hours, QDHWReturn, perfvars, raised,
          results_file, runs, callvars, rngvars>>

NoFile == [exists |-> FALSE]

\* an array allocated without being cleared
zeros_uncleared(n) == [k \in 0..(n - 1) |-> I(1)]

\* np.zeros(n)
zeros(n) == [k \in 0..(n - 1) |-> Zero]

\* np.linspace(0, stop, n) for n >= 1: 0, stop/(n-1), ..., stop
linspace(stop, n) ==
    [k \in 0..(n - 1) |-> IF n = 1 THEN Zero ELSE NpDiv(Mul(I(k), stop), I(n - 1))]

\* the ambient interpolant called at a time in hours
Sample(profile, hours) == Add(profile.base, Mul(profile.slope, hours))

\* the DHW interpolant called at a time in hours
SampleDHW(profile, hours) ==
    IF Le(profile.start, hours) /\ Lt(hours, profile.stop) THEN profile.rate ELSE Zero

\* the seed of DHW.dhw_profile, line 39
Seed == 42

\* np.random.seed left out
np_random_seed_skip(state, seed) == state

\* np.random.seed(seed): the generator restarts the stream of the seed
np_random_seed(state, seed) == IF seed = Seed THEN 0 ELSE -1

\* the draws of one generation with n events: poisson, then rand, normal,
\* exponential and uniform for each event (lines 45-58)
DrawsOf(n) == 1 + 4 * n

\* the generator after `draws` more draws
Advance(state, draws) == IF state < 0 THEN state ELSE state + draws

\* DHW.get_dhw_profile(), called with the generator in `state`
get_dhw_profile(state) ==
    IF np_random_seed(state, Seed) = 0 THEN SeededProfile ELSE UnseededProfile

\* ------------------------------------------------- Simulator.euler, step by step

\* line 55 keeping an inlet temperature set before the run
StepTinlet_kept(Tin) == IF Tin = None THEN I(DefaultTinlet) ELSE Tin

\* line 55: self.T_inlet = 300
StepTinlet(Tin) == I(DefaultTinlet)

\* line 59 with <= in place of <
InitialPumpStatus_le(Ti, Ton) == IF Le(Ti, Ton) THEN "on" ELSE "off"

\* line 59
InitialPumpStatus(Ti, Ton) == IF Lt(Ti, Ton) THEN "on" ELSE "off"

\* line 81 reading the current index
StepTime_current(tv, k) == tv[k]

\* lines 81-82: the step reads the previous index
StepTime(tv, k) == tv[k - 1]

StepTtank(Tv, k) == Tv[k - 1]

\* line 85
StepTamb(profile, t) == Sample(profile, NpDiv(t, I(SecondsPerHour)))

\* lines 87-89 taken whatever the DHW flag is
StepQDHW_unconditional(dhw, profile, t, Ttank, Tin) ==
    LET mdot_DHW == SampleDHW(SeededProfile, NpDiv(t, I(SecondsPerHour)))
    IN  Mul(Mul(mdot_DHW, I(WaterSpecificHeat)), Sub(Ttank, Tin))

\* lines 87-91
StepQDHW(dhw, profile, t, Ttank, Tin) ==
    IF dhw
    THEN LET mdot_DHW == SampleDHW(profile, NpDiv(t, I(SecondsPerHour)))
         IN  Mul(Mul(mdot_DHW, I(WaterSpecificHeat)), Sub(Ttank, Tin))
    ELSE Zero

\* lines 94-97 with > in place of >=
UpdatePumpStatus_strict(status, Ttank, Toff, Ton) ==
    IF Gt(Ttank, Toff) THEN "off"
    ELSE IF Le(Ttank, Ton) THEN "on"
    ELSE status

\* lines 94-97 without the dead band: off unless at or below the on threshold
UpdatePumpStatus_noband(status, Ttank, Toff, Ton) ==
    IF Le(Ttank, Ton) /\ ~Ge(Ttank, Toff) THEN "on" ELSE "off"

\* lines 94-97 without the off branch
UpdatePumpStatus_nooff(status, Ttank, Toff, Ton) ==
    IF Le(Ttank, Ton) THEN "on" ELSE status

\* lines 94-97 without the on branch
UpdatePumpStatus_noon(status, Ttank, Toff, Ton) ==
    IF Ge(Ttank, Toff) THEN "off" ELSE status

\* lines 94-97 with the two tests in the other order
UpdatePumpStatus_onfirst(status, Ttank, Toff, Ton) ==
    IF Le(Ttank, Ton) THEN "on"
    ELSE IF Ge(Ttank, Toff) THEN "off"
    ELSE status

\* lines 94-97
UpdatePumpStatus(status, Ttank, Toff, Ton) ==
    IF Ge(Ttank, Toff) THEN "off"
    ELSE IF Le(Ttank, Ton) THEN "on"
    ELSE status

\* line 101 without the gate
StepQtransfer_ungated(iv, status, Ttank) == CalculateQtransfer(iv, Ttank)

\* line 101
StepQtransfer(iv, status, Ttank) ==
    IF status = "on" THEN CalculateQtransfer(iv, Ttank) ELSE Zero

\* line 106 without the gate
StepCOP_ungated(status, Tamb, a, b) ==
    IF a = None \/ b = None THEN Zero ELSE COP(Sub(CondenserK, Tamb), a, b)

\* line 106
StepCOP(status, Tamb, a, b) ==
    IF status = "on" THEN COP(Sub(CondenserK, Tamb), a, b) ELSE Zero

\* line 107
StepPin(Qtransfer, cop) == IF Gt(cop, Zero) THEN NpDiv(Qtransfer, cop) ELSE Zero

\* lines 117-118
StepEuler(Ttank, step, Qtransfer, Qload, Qloss, QDHW, capacity) ==
    LET dTdt == NpDiv(Sub(Sub(Sub(Qtransfer, Qload), Qloss), QDHW), capacity)
    IN  Add(Ttank, Mul(step, dTdt))

\* lines 49-78, up to the first statement that raises
EulerBegin ==
    /\ pc = "idle"
    /\ runs < MaxRuns
    /\ LET n  == value(inputValues, "simulation_parameters", "time_points")
           tt == value(inputValues, "simulation_parameters", "total_time_seconds")
           Ti == value(inputValues, "initial_conditions", "initial_tank_temperature_K")
           Ton == value(inputValues, "heat_pump", "on_temperature_threshold_K")
       IN
       /\ T_off' = value(inputValues, "heat_pump", "off_temperature_threshold_K")
       /\ T_on' = Ton
       /\ total_time' = tt
       /\ num_points' = n
       /\ IF n < 0
          THEN \* np.linspace raises ValueError (line 53)
               /\ raised' = "ValueError"
               /\ pc' = "idle" /\ runs' = runs + 1
               /\ UNCHANGED <<time_values, step_size, T_inlet, initial_tank_temp,
                              initial_pump_status, loopvars>>
          ELSE IF n = 1
          THEN \* total_time / (num_points - 1) raises ZeroDivisionError (line 54)
               /\ time_values' = linspace(tt, n)
               /\ raised' = "ZeroDivisionError"
               /\ pc' = "idle" /\ runs' = runs + 1
               /\ UNCHANGED <<step_size, T_inlet, initial_tank_temp,
                              initial_pump_status, loopvars>>
          ELSE /\ time_values' = linspace(tt, n)
               /\ step_size' = PyDiv(tt, I(n - 1))
               /\ T_inlet' = StepTinlet(T_inlet)
               /\ initial_tank_temp' = Ti
               /\ initial_pump_status' = InitialPumpStatus(Ti, Ton)
               /\ IF n = 0
                  THEN \* Ttank_values[0] = ... raises IndexError (line 78)
                       /\ raised' = "IndexError"
                       /\ pc' = "idle" /\ runs' = runs + 1
                       /\ UNCHANGED loopvars
                  ELSE /\ pump_status' = InitialPumpStatus(Ti, Ton)
                       /\ Ttank_values' = [zeros(n) EXCEPT ![0] = Ti]
                       /\ cop_values' = zeros(n)
                       /\ heat_load_values' = zeros(n)
                       /\ heat_loss_values' = zeros(n)
                       /\ Pin_values' = zeros(n)
                       /\ Qtransfer_values' = zeros(n)
                       /\ IF DHW
                          THEN /\ dhw_interp_profile' = get_dhw_profile(rng)
                               /\ QDHW_values' = zeros(n)
                          ELSE /\ dhw_interp_profile' = None
                               /\ QDHW_values' = None
                       /\ Atank' = tank_SA(inputValues, RHratio)
                       /\ status_values' = [k \in 0..(n - 1) |-> "none"]
                       /\ QDHW_step' = zeros(n)
                       /\ i' = 1
                       /\ raised' = "none"
                       /\ pc' = "euler" /\ runs' = runs
       /\ IF DHW /\ (n = 0 \/ n >= 2)
          THEN \* DHW.get_dhw_profile() has run (line 72)
               /\ rng' = Advance(np_random_seed(rng, Seed), DrawsOf(1))
               /\ generations' = generations + 1
          ELSE UNCHANGED rngvars
    /\ UNCHANGED <<objvars, time_hours, QDHWReturn, perfvars, results_file, callvars>>

\* line 106: a + b / deltaT raises TypeError on an unset coefficient
StepCOP_raises(status, a, b) == status = "on" /\ (a = None \/ b = None)

\* lines 80-118: one iteration of the loop
EulerStep ==
    /\ pc = "euler"
    /\ i < num_points
    /\ LET t      == StepTime(time_values, i)
           Ttank  == StepTtank(Ttank_values, i)
           Tamb   == StepTamb(interpolated_data, t)
           QDHW   == StepQDHW(DHW, dhw_interp_profile, t, Ttank, T_inlet)
           status == UpdatePumpStatus(pump_status, Ttank, T_off, T_on)
           Qload  == CalculateQload(inputValues, Tamb)
           Qtransfer == StepQtransfer(inputValues, status, Ttank)
           Qloss  == CalculateQloss(inputValues, Atank, Ttank, Tamb)
           cop    == StepCOP(status, Tamb, fit_a, fit_b)
           Pin    == StepPin(Qtransfer, cop)
       IN
       /\ pump_status' = status
       /\ IF StepCOP_raises(status, fit_a, fit_b)
          THEN /\ raised' = "TypeError"
               /\ pc' = "idle" /\ runs' = runs + 1
               /\ UNCHANGED <<i, heat_load_values, Qtransfer_values, heat_loss_values,
                              cop_values, Pin_values, Ttank_values, status_values,
                              QDHW_step>>
          ELSE /\ heat_load_values' = [heat_load_values EXCEPT ![i] = Qload]
               /\ Qtransfer_values' = [Qtransfer_values EXCEPT ![i] = Qtransfer]
               /\ heat_loss_values' = [heat_loss_values EXCEPT ![i] = Qloss]
               /\ cop_values' = [cop_values EXCEPT ![i] = cop]
               /\ Pin_values' = [Pin_values EXCEPT ![i] = Pin]
               /\ Ttank_values' = [Ttank_values EXCEPT ![i] =
                      StepEuler(Ttank, step_size, Qtransfer, Qload, Qloss, QDHW,
                                value(inputValues, "hot_water_tank",
                                      "total_thermal_capacity"))]
               /\ status_values' = [status_values EXCEPT ![i] = status]
               /\ QDHW_step' = [QDHW_step EXCEPT ![i] = QDHW]
               /\ i' = i + 1
               /\ UNCHANGED <<pc, raised, runs>>
    /\ UNCHANGED <<objvars, selfvars, QDHW_values, dhw_interp_profile, Atank,
                   time_hours, QDHWReturn, perfvars, results_file, callvars, rngvars>>

\* lines 121-124 without the test of the flag
QDHWReturnOf_series(dhw, QDHW) == [kind |-> "series", values |-> QDHW]

\* lines 121-124: the DHW-loss field of the returned tuple
QDHWReturnOf(dhw, QDHW) ==
    IF dhw THEN [kind |-> "series", values |-> QDHW]
           ELSE [kind |-> "sentinel", text |-> DHWOffSentinel]

\* lines 120-135: the returned tuple
EulerReturn ==
    /\ pc = "euler"
    /\ i >= num_points
    /\ time_hours' = [kind |-> "list",
                      items |-> [k \in DOMAIN time_values |->
                                    NpDiv(time_values[k], I(SecondsPerHour))]]
    /\ QDHWReturn' = QDHWReturnOf(DHW, QDHW_values)
    /\ pc' = "performance"
    /\ UNCHANGED <<objvars, selfvars, loopvars, perfvars, raised, results_file, runs,
                   callvars, rngvars>>

\* simulate, lines 190-193, with the error of calculate_performance swallowed
AfterPerformance_swallow(fails) == "store"

\* simulate, lines 190-193: store_values follows calculate_performance only when
\* that call returned
AfterPerformance(fails) == IF fails THEN "idle" ELSE "store"

\* Simulator.calculate_performance, lines 138-161
CalculatePerformance ==
    /\ pc = "performance"
    /\ LET energy == calculate_total_energy_consumption(Pin_values, time_hours)
           qtr    == calculate_total_heat_transfer(Qtransfer_values, time_hours)
           hl     == calculate_total_heat_loss(heat_load_values, time_hours)
       IN
       /\ total_energy' = energy
       /\ total_qtransfer' = qtr
       /\ hl_tot' = hl
       /\ IF calculate_total_eff_raises(hl, qtr)
          THEN /\ raised' = "ZeroDivisionError"
               /\ pc' = AfterPerformance(TRUE)
               /\ runs' = IF pc' = "idle" THEN runs + 1 ELSE runs
               /\ total_eff' = None /\ max_out' = None
          ELSE /\ total_eff' = calculate_total_eff(hl, qtr)
               /\ max_out' = Qmax(Pin_values, cop_values)
               /\ pc' = AfterPerformance(FALSE)
               /\ UNCHANGED <<raised, runs>>
    /\ UNCHANGED <<objvars, selfvars, loopvars, time_hours, QDHWReturn, results_file,
                   callvars, rngvars>>

\* lines 171-182: the dictionary store_values builds from its arguments
ResultRecord ==
    [ exists |-> TRUE,
      time |-> time_hours.items,
      temperature |-> [k \in DOMAIN Ttank_values |->
                          Sub(Ttank_values[k], KelvinOffset)],
      heat_load |-> heat_load_values,
      heat_loss |-> heat_loss_values,
      COP |-> cop_values,
      Power_consumption |-> Pin_values,
      Total_Energy_Consumption |-> total_energy,
      Total_system_efficiency |-> total_eff,
      Heat_pump_maximum_output |-> max_out,
      Domestic_Hot_Water_Loss |-> QDHWReturn ]

\* Simulator.store_values, lines 163-187
StoreValues ==
    /\ pc = "store"
    /\ results_file' = ResultRecord
    /\ pc' = "idle"
    /\ runs' = runs + 1
    /\ UNCHANGED <<objvars, selfvars, loopvars, time_hours, QDHWReturn, perfvars,
                   raised, callvars, rngvars>>

\* inlet temperatures a caller may set
InletTemps == { I(290) }

\* Simulator.set_dhw_inlet_temp, lines 195-196, called between runs
set_dhw_inlet_temp ==
    /\ pc = "idle"
    /\ \E NewTinlet \in InletTemps : T_inlet' = NewTinlet
    /\ UNCHANGED <<objvars, T_off, T_on, total_time, num_points, time_values,
                   step_size, initial_tank_temp, initial_pump_status, pc, loopvars,
                   time_hours, QDHWReturn, perfvars, raised, results_file, runs,
                   callvars, rngvars>>

\* Simulator.changeDHW, lines 198-199, called between runs (GUI.DHW_switch_event)
changeDHW ==
    /\ pc = "idle"
    /\ \E newValue \in BOOLEAN : DHW' = newValue
    /\ UNCHANGED <<inputValues, interpolated_data, fit_a, fit_b, selfvars, pc,
                   loopvars, time_hours, QDHWReturn, perfvars, raised, results_file,
                   runs, callvars, rngvars>>

\* the program after Main.py has built the Simulator
Init ==
    /\ \E th \in Thresholds, Ti \in InitialTemps, areas \in BuildingAreas,
          Uc \in TransferCoefficients, Ul \in LossCoefficients, m \in WaterMasses,
          grid \in TimeGrids :
          inputValues = InputData(th, Ti, areas, Uc, Ul, m, grid)
    /\ interpolated_data \in AmbientProfiles
    /\ \E f \in Fits : fit_a = f[1] /\ fit_b = f[2]
    /\ DHW \in BOOLEAN
    /\ T_off = None /\ T_on = None /\ total_time = None /\ num_points = 0
    /\ time_values = None /\ step_size = None /\ T_inlet = None
    /\ initial_tank_temp = None /\ initial_pump_status = "none"
    /\ pc = "idle" /\ i = 0
    /\ pump_status = "none"
    /\ Ttank_values = None /\ cop_values = None /\ heat_load_values = None
    /\ heat_loss_values = None /\ Pin_values = None /\ Qtransfer_values = None
    /\ QDHW_values = None /\ dhw_interp_profile = None /\ Atank = None
    /\ status_values = None /\ QDHW_step = None
    /\ time_hours = None /\ QDHWReturn = None
    /\ total_energy = None /\ total_qtransfer = None /\ hl_tot = None
    /\ total_eff = None /\ max_out = None
    /\ raised = "none"
    /\ results_file = NoFile
    /\ runs = 0
    /\ fn = "none" /\ arg_values = None /\ arg_times = None /\ result = None
    /\ ValueType = "none" /\ ValueName = "none" /\ events = None
    /\ rng = -1 /\ generations = 0

Next ==
    \/ EulerBegin \/ EulerStep \/ EulerReturn \/ CalculatePerformance \/ StoreValues
    \/ set_dhw_inlet_temp \/ changeDHW

Spec == Init /\ [][Next]_vars

\* ------------------------------------------------- properties

\* a run of simulate() is between its first statement and its return
InRun == pc \in {"euler", "performance", "store"}

\* the steps of the current run that have been executed
StepsDone == 1..(i - 1)

\* the pump status a step started with
StatusBefore(k) == IF k = 1 THEN initial_pump_status ELSE status_values[k - 1]

P(cat, name) == inputValues[cat][name].value

\* the ambient temperature at the time of index k
AmbientAt(k) ==
    Add(interpolated_data.base,
        Mul(interpolated_data.slope, NpDiv(time_values[k], I(SecondsPerHour))))

\* C1: in every executed step k the pump mode of the step follows from T[k-1]:
\* 'off' if T[k-1] >= T_off, otherwise 'on' if T[k-1] <= T_on.
C1_ModeFromPreviousTemperature ==
    InRun =>
      \A k \in StepsDone :
        /\ Ge(Ttank_values[k - 1], T_off) => status_values[k] = "off"
        /\ (~Ge(Ttank_values[k - 1], T_off) /\ Le(Ttank_values[k - 1], T_on))
              => status_values[k] = "on"

\* a run in which one step switched the pump on and a later one switched it off
\* again at the off threshold
C1_Witness ==
    /\ InRun
    /\ \E k \in StepsDone :
          /\ StatusBefore(k) = "on"
          /\ Ge(Ttank_values[k - 1], T_off)
          /\ status_values[k] = "off"
    /\ \E k \in StepsDone :
          /\ StatusBefore(k) = "off"
          /\ Le(Ttank_values[k - 1], T_on)
          /\ status_values[k] = "on"

\* C2: during a run the pump mode is 'on' or 'off'; it changes only in a loop
\* step whose previous-step temperature is at or beyond a threshold, so a
\* temperature strictly between T_on and T_off leaves it as it was.
C2_OnlyHysteresisChangesMode ==
    [][ /\ pc' \in {"euler", "performance", "store"} => pump_status' \in {"on", "off"}
        /\ (InRun /\ pump_status' # pump_status)
              => /\ pc = "euler" /\ i < num_points
                 /\ \/ Ge(Ttank_values[i - 1], T_off)
                    \/ Le(Ttank_values[i - 1], T_on)
        /\ (pc = "euler" /\ i < num_points
              /\ Gt(Ttank_values[i - 1], T_on) /\ Lt(Ttank_values[i - 1], T_off))
              => pump_status' = pump_status
      ]_vars

\* a run with a step inside the dead band that kept the pump on, and one that
\* kept it off
C2_Witness ==
    /\ InRun
    /\ \E k \in StepsDone :
          /\ Gt(Ttank_values[k - 1], T_on) /\ Lt(Ttank_values[k - 1], T_off)
          /\ StatusBefore(k) = "on" /\ status_values[k] = "on"
    /\ \E k \in StepsDone :
          /\ Gt(Ttank_values[k - 1], T_on) /\ Lt(Ttank_values[k - 1], T_off)
          /\ StatusBefore(k) = "off" /\ status_values[k] = "off"

\* C3: before the first step the pump mode is 'on' if the initial tank
\* temperature is strictly below T_on and 'off' otherwise.
C3_InitialMode ==
    (pc = "euler" /\ i = 1) =>
      LET Ti == P("initial_conditions", "initial_tank_temperature_K")
          Ton == P("heat_pump", "on_temperature_threshold_K")
      IN  /\ Ttank_values[0] = Ti
          /\ Lt(Ti, Ton) => pump_status = "on"
          /\ ~Lt(Ti, Ton) => pump_status = "off"

\* the loop is about to start from an initial temperature equal to T_on, pump off
C3_Witness ==
    /\ pc = "euler" /\ i = 1
    /\ P("initial_conditions", "initial_tank_temperature_K")
         = P("heat_pump", "on_temperature_threshold_K")
    /\ pump_status = "off"

\* the heat terms of step k as the formulas of the heat balance give them, from
\* the previous tank temperature and the ambient temperature at the previous time
TransferOf(k) ==
    IF status_values[k] = "on"
    THEN Mul(Mul(P("heat_pump", "overall_heat_transfer_coefficient"),
                 P("heat_pump", "heat_transfer_area")),
             Sub(P("heat_pump", "fixed_condenser_temperature_K"), Ttank_values[k - 1]))
    ELSE Zero

LoadOf(k) ==
    Mul(Add(Mul(P("building_properties", "wall_area"),
                P("building_properties", "wall_U_value")),
            Mul(P("building_properties", "roof_area"),
                P("building_properties", "roof_U_value"))),
        Sub(P("building_properties", "indoor_setpoint_temperature_K"), AmbientAt(k - 1)))

LossOf(k) ==
    Mul(Mul(P("hot_water_tank", "heat_loss_coefficient"), Atank),
        Sub(Ttank_values[k - 1], AmbientAt(k - 1)))

DrawOf(k) ==
    IF DHW
    THEN LET h == NpDiv(time_values[k - 1], I(SecondsPerHour))
             flow == IF Le(dhw_interp_profile.start, h) /\ Lt(h, dhw_interp_profile.stop)
                     THEN dhw_interp_profile.rate ELSE Zero
         IN  Mul(flow, Mul(I(WaterSpecificHeat), Sub(Ttank_values[k - 1], T_inlet)))
    ELSE Zero

\* C4: T[k] = T[k-1] + stepSize * (heatTransfer - heatLoad - heatLoss - DHWdraw)
\* / thermalCapacity at every executed step, the four terms taken at T[k-1] and
\* at the ambient temperature of time[k-1]; stepSize = totalDuration /
\* (numPoints - 1) is the spacing of all time points of the run.
C4_EulerUpdate ==
    InRun =>
      /\ Mul(step_size, I(num_points - 1))
           = P("simulation_parameters", "total_time_seconds")
      /\ \A k \in 1..(num_points - 1) :
            Sub(time_values[k], time_values[k - 1]) = step_size
      /\ \A k \in StepsDone :
            Ttank_values[k] =
              Add(Ttank_values[k - 1],
                  Mul(NpDiv(step_size, P("hot_water_tank", "total_thermal_capacity")),
                      Sub(Sub(Sub(TransferOf(k), LoadOf(k)), LossOf(k)), DrawOf(k))))

\* a run under a changing ambient temperature and with a DHW draw, two steps
\* done, the pump on in the second, and the tank temperature moving
C4_Witness ==
    /\ InRun
    /\ interpolated_data.slope # Zero
    /\ DHW
    /\ \E k \in StepsDone :
          /\ k >= 2
          /\ status_values[k] = "on"
          /\ DrawOf(1) # Zero
          /\ LoadOf(k) # Zero /\ LossOf(k) # Zero
          /\ Ttank_values[k] # Ttank_values[k - 1]

\* C5: per executed step, the recorded heat transfer, COP and power input are
\* gated by the mode the step's hysteresis update produced: all three are 0 when
\* it is 'off'; when it is 'on' the heat transfer is U*A*(T_cond - T[k-1]) and the
\* power input is heatTransfer / COP if COP > 0, else 0.  Heat load and heat loss
\* are recorded in both modes.
C5_GatedByUpdatedMode ==
    InRun =>
      \A k \in StepsDone :
        /\ heat_load_values[k] = LoadOf(k)
        /\ heat_loss_values[k] = LossOf(k)
        /\ Qtransfer_values[k] = TransferOf(k)
        /\ status_values[k] = "off" =>
              /\ Qtransfer_values[k] = Zero
              /\ cop_values[k] = Zero
              /\ Pin_values[k] = Zero
        /\ status_values[k] = "on" =>
              IF Gt(cop_values[k], Zero)
              THEN IF IsFinite(cop_values[k])
                   THEN Mul(Pin_values[k], cop_values[k]) = Qtransfer_values[k]
                   ELSE Pin_values[k] = Zero
              ELSE Pin_values[k] = Zero

\* a run with a step that switched the pump on and recorded a transfer and a
\* power input, and a step with the pump off that recorded a load and a loss
C5_Witness ==
    /\ InRun
    /\ \E k \in StepsDone :
          /\ StatusBefore(k) = "off" /\ status_values[k] = "on"
          /\ Qtransfer_values[k] # Zero /\ Pin_values[k] # Zero
    /\ \E k \in StepsDone :
          /\ status_values[k] = "off"
          /\ heat_load_values[k] # Zero /\ heat_loss_values[k] # Zero

\* the end-to-end scenario: T_on = 313.15, T_off = 333.15, initial tank
\* temperature 318.15, ambient constant 280, no wall and no roof area, DHW
\* disabled, COP constant 3
Scenario ==
    /\ P("heat_pump", "on_temperature_threshold_K") = K(31315)
    /\ P("heat_pump", "off_temperature_threshold_K") = K(33315)
    /\ P("initial_conditions", "initial_tank_temperature_K") = K(31815)
    /\ interpolated_data = [base |-> I(280), slope |-> Zero]
    /\ P("building_properties", "wall_area") = Zero
    /\ P("building_properties", "roof_area") = Zero
    /\ ~DHW
    /\ fit_a = I(3) /\ fit_b = Zero

\* step k is the first whose previous-step tank temperature is at or above T_off
FirstHot(k) ==
    /\ Ge(Ttank_values[k - 1], T_off)
    /\ \A j \in 1..(k - 1) : ~Ge(Ttank_values[j - 1], T_off)

BecomesOff(k) == StatusBefore(k) = "on" /\ status_values[k] = "off"

\* step k is the first in which the pump goes from 'on' to 'off'
FirstOff(k) == BecomesOff(k) /\ \A j \in 1..(k - 1) : ~BecomesOff(j)

\* C6 as stated: in the scenario the tank temperature strictly increases in
\* every step with the pump on, and the pump goes off exactly at the first step
\* whose previous-step temperature is >= 333.15.
C6_AsStated ==
    (InRun /\ Scenario) =>
      \A k \in StepsDone :
        /\ status_values[k] = "on" => Gt(Ttank_values[k], Ttank_values[k - 1])
        /\ FirstOff(k) <=> FirstHot(k)

\* C6, amended: in the scenario the tank temperature strictly increases in
\* every step with the pump on whose heat transfer exceeds its heat loss, and
\* the pump goes from 'on' to 'off' exactly at the first step whose
\* previous-step temperature is >= 333.15.
C6_RisesWhenTransferExceedsLoss ==
    (InRun /\ Scenario) =>
      \A k \in StepsDone :
        /\ (status_values[k] = "on" /\ Gt(Qtransfer_values[k], heat_loss_values[k]))
              => Gt(Ttank_values[k], Ttank_values[k - 1])
        /\ FirstOff(k) <=> FirstHot(k)

\* a scenario run in which the pump, off at the start, came on, heated the tank
\* past 333.15 and went off in the step after
C6_Witness ==
    /\ InRun /\ Scenario
    /\ \E k \in StepsDone :
          /\ status_values[k] = "on"
          /\ Gt(Qtransfer_values[k], heat_loss_values[k])
          /\ Gt(Ttank_values[k], Ttank_values[k - 1])
          /\ k + 1 \in StepsDone
          /\ FirstHot(k + 1) /\ FirstOff(k + 1)

\* the sum over k = 1..n of values[k] * (times[k] - times[k-1]), written from
\* the last term down
RECURSIVE LeftSum(_, _, _)
LeftSum(values, times, n) ==
    IF n < 1 THEN Zero
    ELSE Add(LeftSum(values, times, n - 1),
             Mul(values[n], Sub(times[n], times[n - 1])))

\* C7 as stated: the total electrical energy a full run reports is the sum over
\* steps 1..numPoints-1 of powerInput[i] * (time[i] - time[i-1]) with the time
\* differences in seconds, i.e. powerInput[i] * stepSize; in the scenario it is
\* the sum of heatTransfer[i]/3 * stepSize over the 'on' steps.
C7_AsStated ==
    pc = "store" =>
      /\ total_energy = LeftSum(Pin_values, time_values, num_points - 1)
      /\ Scenario =>
           total_energy =
             LeftSum([k \in DOMAIN Qtransfer_values |->
                        IF k >= 1 /\ status_values[k] = "on"
                        THEN NpDiv(Qtransfer_values[k], I(3)) ELSE Zero],
                     time_values, num_points - 1)

MaxLen == 3

IntegralValues == { Zero, I(3), I(7) }

IntegralTimes == { Zero, Norm(1, 2), I(1800), I(3600) }

\* point counts, values and durations of the constant uniformly spaced series
UniformCounts == { 2, 3, 10 }

UniformValues == { I(3), I(7) }

UniformDurations == { I(1), I(3600) }

PyList(items) == [kind |-> "list", items |-> items]

\* the program as constructed, with a value list and a time list of one length at hand
IntegralInit ==
    /\ inputValues = InputData(<<K(31315), K(33315)>>, K(31815), <<Zero, Zero>>,
                               I(2), Zero, I(200), <<I(1800), 2>>)
    /\ interpolated_data = [base |-> K(28000), slope |-> Zero]
    /\ fit_a = I(3) /\ fit_b = Zero
    /\ DHW = FALSE
    /\ T_off = None /\ T_on = None /\ total_time = None /\ num_points = 0
    /\ time_values = None /\ step_size = None /\ T_inlet = None
    /\ initial_tank_temp = None /\ initial_pump_status = "none"
    /\ pc = "idle" /\ i = 0
    /\ pump_status = "none"
    /\ Ttank_values = None /\ cop_values = None /\ heat_load_values = None
    /\ heat_loss_values = None /\ Pin_values = None /\ Qtransfer_values = None
    /\ QDHW_values = None /\ dhw_interp_profile = None /\ Atank = None
    /\ status_values = None /\ QDHW_step = None
    /\ time_hours = None /\ QDHWReturn = None
    /\ total_energy = None /\ total_qtransfer = None /\ hl_tot = None
    /\ total_eff = None /\ max_out = None
    /\ raised = "none"
    /\ results_file = NoFile
    /\ runs = 0
    /\ fn = "none" /\ result = None
    /\ ValueType = "none" /\ ValueName = "none" /\ events = None
    /\ rng = -1 /\ generations = 0
    /\ \/ \E n \in 0..MaxLen :
             /\ arg_values \in [0..(n - 1) -> IntegralValues]
             /\ \E ts \in [0..(n - 1) -> IntegralTimes] : arg_times = PyList(ts)
       \/ \E n \in UniformCounts, v \in UniformValues, D \in UniformDurations :
             /\ arg_values = [k \in 0..(n - 1) |-> v]
             /\ arg_times = PyList(linspace(D, n))

\* formulae.calculate_total_energy_consumption(arg_values, arg_times)
CallEnergy ==
    /\ fn' = "calculate_total_energy_consumption"
    /\ result' = calculate_total_energy_consumption(arg_values, arg_times)
    /\ UNCHANGED <<objvars, selfvars, pc, loopvars, time_hours, QDHWReturn, perfvars,
                   raised, results_file, runs, arg_values, arg_times, ValueType,
                   ValueName, events, rngvars>>

\* formulae.calculate_total_heat_transfer(arg_values, arg_times)
CallTransfer ==
    /\ fn' = "calculate_total_heat_transfer"
    /\ result' = calculate_total_heat_transfer(arg_values, arg_times)
    /\ UNCHANGED <<objvars, selfvars, pc, loopvars, time_hours, QDHWReturn, perfvars,
                   raised, results_file, runs, arg_values, arg_times, ValueType,
                   ValueName, events, rngvars>>

\* formulae.calculate_total_heat_loss(arg_values, arg_times)
CallLoss ==
    /\ fn' = "calculate_total_heat_loss"
    /\ result' = calculate_total_heat_loss(arg_values, arg_times)
    /\ UNCHANGED <<objvars, selfvars, pc, loopvars, time_hours, QDHWReturn, perfvars,
                   raised, results_file, runs, arg_values, arg_times, ValueType,
                   ValueName, events, rngvars>>

IntegralNext == CallEnergy \/ CallTransfer \/ CallLoss

SpecIntegral == IntegralInit /\ [][IntegralNext]_vars

ArgLen == Cardinality(DOMAIN arg_values)

UniformCase ==
    /\ ArgLen \in UniformCounts
    /\ \A k \in DOMAIN arg_values : arg_values[k] = arg_values[0]
    /\ \A k \in 1..(ArgLen - 1) :
          Mul(Sub(arg_times.items[k], arg_times.items[k - 1]), I(ArgLen - 1))
             = Sub(arg_times.items[ArgLen - 1], arg_times.items[0])

UniformSpan == Sub(arg_times.items[ArgLen - 1], arg_times.items[0])

\* C9 as stated: for a constant v over N uniformly spaced times spanning D,
\* the energy integral returns v * D * (N-2)/(N-1), so 0 for N = 2.
C9_AsStated ==
    (fn = "calculate_total_energy_consumption" /\ UniformCase) =>
      result = Mul(Mul(arg_values[0], UniformSpan), Norm(ArgLen - 2, ArgLen - 1))

\* C9, amended: for a constant v over N uniformly spaced times spanning D
\* (N = 2, 3, 10), the energy integral returns v * D: all N-1 intervals count,
\* only the sample value[0] is left out, so the result for N = 2 is v * D.
C9_AllIntervalsCounted ==
    (fn = "calculate_total_energy_consumption" /\ UniformCase) =>
      result = Mul(arg_values[0], UniformSpan)

\* the energy integral returned for ten points of a non-zero constant over a
\* positive duration
C9_Witness ==
    /\ fn = "calculate_total_energy_consumption"
    /\ UniformCase
    /\ ArgLen = 10
    /\ arg_values[0] # Zero
    /\ Gt(UniformSpan, Zero)
    /\ result # Zero

\* ------------------------------------------------- the channels of a run

\* the per-step channels other than the tank temperature
ZeroStartChannels ==
    { heat_load_values, heat_loss_values, Qtransfer_values, cop_values, Pin_values }

\* C11: in the series of a run, index 0 of the tank temperature is the initial
\* tank temperature, index 0 of heat load, heat loss, heat transfer, COP and
\* power input is 0, and every channel, time included, has numPoints entries.
C11_IndexZeroAndLengths ==
    InRun =>
      /\ Ttank_values[0] = P("initial_conditions", "initial_tank_temperature_K")
      /\ \A ch \in ZeroStartChannels : ch[0] = Zero
      /\ \A ch \in ZeroStartChannels \cup { Ttank_values, time_values } :
            DOMAIN ch = 0..(num_points - 1)
      /\ pc \in {"performance", "store"} =>
            DOMAIN time_hours.items = 0..(num_points - 1)

\* euler has returned a series of at least three points whose step 1 recorded
\* a heat load, a heat loss, a heat transfer, a COP and a power input
C11_Witness ==
    /\ pc = "performance"
    /\ num_points >= 3
    /\ \A ch \in ZeroStartChannels : ch[1] # Zero
    /\ Ttank_values[1] # Ttank_values[0]

\* C12: in every executed step the DHW draw of the tank update is
\* flowRate(time[k-1]) * 4186 * (T[k-1] - T_inlet) when DHW simulation is on and
\* 0 when it is off, in which case no DHW profile is generated or sampled.
C12_DrawInUpdate ==
    InRun =>
      /\ \A k \in StepsDone :
            /\ QDHW_step[k] = DrawOf(k)
            /\ Mul(Sub(Ttank_values[k], Ttank_values[k - 1]),
                   P("hot_water_tank", "total_thermal_capacity"))
                 = Mul(step_size,
                       Sub(Sub(Sub(Qtransfer_values[k], heat_load_values[k]),
                               heat_loss_values[k]), QDHW_step[k]))
      /\ ~DHW => /\ dhw_interp_profile = None
                 /\ \A k \in StepsDone : QDHW_step[k] = Zero

\* a run with DHW simulation on in which a step drew hot water from a tank
\* warmer than the inlet
C12_Witness ==
    /\ InRun /\ DHW
    /\ \E k \in StepsDone :
          /\ QDHW_step[k] # Zero
          /\ Gt(Ttank_values[k - 1], T_inlet)
          /\ SampleDHW(dhw_interp_profile,
                       NpDiv(time_values[k - 1], I(SecondsPerHour))) # Zero

\* C13 as stated: the inlet temperature of a run is 300 K unless overridden;
\* a run that begins after set_dhw_inlet_temp(x) computes with T_inlet = x.
C13_AsStated ==
    [][ (pc = "idle" /\ pc' = "euler") =>
          T_inlet' = IF T_inlet = None THEN I(DefaultTinlet) ELSE T_inlet ]_vars

\* C14 as stated: with DHW simulation on, the DHW-loss channel holds at every
\* executed index k the DHW draw computed in step k and subtracted in the tank
\* update.
C14_AsStated ==
    (InRun /\ DHW) => \A k \in StepsDone : QDHW_values[k] = QDHW_step[k]

\* C15: the DHW-loss field returned and stored by a run is a numeric series of
\* numPoints entries exactly when the DHW flag was set for the run and the
\* fixed sentinel exactly when it was not; the flag changes only between runs,
\* with nothing else changing, and the run after the change follows it.
C15_VariantByFlag ==
    [][ /\ (pc = "idle" /\ pc' = "euler") =>
              (dhw_interp_profile' # None) = DHW
        /\ (pc = "euler" /\ pc' = "performance") =>
              /\ (QDHWReturn'.kind = "series") = DHW
              /\ (QDHWReturn'.kind = "sentinel") = ~DHW
              /\ DHW => DOMAIN QDHWReturn'.values = 0..(num_points - 1)
              /\ ~DHW => QDHWReturn' = [kind |-> "sentinel", text |-> DHWOffSentinel]
        /\ pc = "store" => results_file'.Domestic_Hot_Water_Loss = QDHWReturn
        /\ DHW' # DHW =>
              /\ pc = "idle"
              /\ UNCHANGED <<inputValues, interpolated_data, fit_a, fit_b, selfvars,
                             pc, loopvars, time_hours, QDHWReturn, perfvars, raised,
                             results_file, runs, callvars, rngvars>>
      ]_vars

\* a run of at least three points made with the DHW flag set has stored its
\* result, the DHW-loss field a series of numPoints entries
C15_Witness ==
    /\ pc = "idle" /\ runs = 1
    /\ results_file.exists
    /\ results_file.Domestic_Hot_Water_Loss.kind = "series"
    /\ DOMAIN results_file.Domestic_Hot_Water_Loss.values = 0..(num_points - 1)
    /\ num_points >= 3

\* C16 as stated: a run started with numPoints <= 0 or totalDuration <= 0
\* fails before the loop: no step is executed, no time series is produced and
\* no result record is written.
C16_AsStated ==
    (\/ P("simulation_parameters", "time_points") <= 0
     \/ Le(P("simulation_parameters", "total_time_seconds"), Zero)) =>
      /\ ~InRun
      /\ time_hours = None
      /\ results_file = NoFile
      /\ runs >= 1 => raised # "none"

\* ------------------------------------------------- the lookup called alone

\* parameter files as loaded: complete ones, none at all, one without most
\* categories, one whose entry has no "value" field
LookupData ==
    { None }
    \cup { InputData(th, Ti, <<Zero, Zero>>, I(2), Zero, I(200), <<I(1800), 2>>) :
             th \in Thresholds, Ti \in InitialTemps }
    \cup { [ heat_pump |-> [ on_temperature_threshold_K |-> Entry(K(31315)) ] ],
           [ heat_pump |-> [ on_temperature_threshold_K |-> [ unit |-> "K" ],
                             off_temperature_threshold_K |-> Entry(K(33315)) ],
             simulation_parameters |-> [ time_points |-> Entry(3) ] ] }

LookupTypes == { "heat_pump", "simulation_parameters", "hot_water_tanks" }

LookupNames ==
    { "on_temperature_threshold_K", "off_temperature_threshold_K", "time_points",
      "cutoff_temperature_K" }

\* the program with some parameter file loaded, or none, and a lookup at hand
LookupInit ==
    /\ inputValues \in LookupData
    /\ ValueType \in LookupTypes /\ ValueName \in LookupNames
    /\ interpolated_data = [base |-> K(28000), slope |-> Zero]
    /\ fit_a = I(3) /\ fit_b = Zero
    /\ DHW = FALSE
    /\ T_off = None /\ T_on = None /\ total_time = None /\ num_points = 0
    /\ time_values = None /\ step_size = None /\ T_inlet = None
    /\ initial_tank_temp = None /\ initial_pump_status = "none"
    /\ pc = "idle" /\ i = 0
    /\ pump_status = "none"
    /\ Ttank_values = None /\ cop_values = None /\ heat_load_values = None
    /\ heat_loss_values = None /\ Pin_values = None /\ Qtransfer_values = None
    /\ QDHW_values = None /\ dhw_interp_profile = None /\ Atank = None
    /\ status_values = None /\ QDHW_step = None
    /\ time_hours = None /\ QDHWReturn = None
    /\ total_energy = None /\ total_qtransfer = None /\ hl_tot = None
    /\ total_eff = None /\ max_out = None
    /\ raised = "none"
    /\ results_file = NoFile
    /\ runs = 0
    /\ fn = "none" /\ result = None
    /\ arg_values = None /\ arg_times = None /\ events = None
    /\ rng = -1 /\ generations = 0

\* InputValues.value(ValueType, ValueName), lines 71-85
CallValue ==
    /\ fn = "none"
    /\ fn' = "value"
    /\ LET exc == value_raises(inputValues, ValueType, ValueName)
       IN  /\ raised' = exc.error
           /\ result' = IF exc.error # "none"
                        THEN [names |-> exc.names]
                        ELSE [returned |-> value(inputValues, ValueType, ValueName)]
    /\ UNCHANGED <<objvars, selfvars, pc, loopvars, time_hours, QDHWReturn, perfvars,
                   results_file, runs, arg_values, arg_times, ValueType, ValueName,
                   events, rngvars>>

LookupNext == CallValue

SpecLookup == LookupInit /\ [][LookupNext]_vars

\* C17 as stated: a lookup fails with an error naming the missing key whenever
\* the category or the name is absent, and no lookup returns a silent default
\* such as a null value.
C17_AsStated ==
    fn = "value" =>
      /\ (inputValues # None /\ ValueType \notin DOMAIN inputValues) =>
            raised = "KeyError" /\ result.names = ValueType
      /\ (inputValues # None /\ ValueType \in DOMAIN inputValues
             /\ ValueName \notin DOMAIN inputValues[ValueType]) =>
            raised = "KeyError" /\ result.names = ValueName
      /\ raised = "none" => result.returned # None

\* C18 as stated: a failed calibration aborts the program before any run is
\* attempted: no run starts, or has been made, with fit_a or fit_b unset.
C18_AsStated ==
    (InRun \/ runs >= 1) => (fit_a # None /\ fit_b # None)

\* C19 as stated: a step in which the pump is 'on' while the sampled ambient
\* temperature equals the condenser temperature 65 + 273.15 K is guarded or
\* fails: it never records an infinite or undefined COP or power input.
C19_AsStated ==
    InRun =>
      \A k \in StepsDone :
        (status_values[k] = "on" /\ AmbientAt(k - 1) = CondenserK) =>
           IsFinite(cop_values[k]) /\ IsFinite(Pin_values[k])

\* ------------------------------------------------- the DHW profile generator

\* int(x) of Python: truncation towards zero
PyInt(x) == IF x[1] >= 0 THEN x[1] \div x[2] ELSE -((-x[1]) \div x[2])

\* the position a slice bound k denotes in a sequence of length len: a negative
\* bound counts from the end, and bounds beyond either end are clipped
SliceBound(k, len) ==
    IF k < 0 THEN (IF k + len < 0 THEN 0 ELSE k + len)
    ELSE IF k > len THEN len ELSE k

\* DHW.dhw_profile, lines 61-63: profile[start_index:end_index] += flow_rate
AddEvent(profile, ev, time_step) ==
    LET len == Cardinality(DOMAIN profile)
        start_index == PyInt(NpDiv(ev.start_time, I(time_step)))
        end_index == PyInt(NpDiv(Add(ev.start_time, ev.duration), I(time_step)))
        from == SliceBound(start_index, len)
        to == SliceBound(end_index, len)
    IN  [j \in DOMAIN profile |->
            IF from <= j /\ j < to THEN Add(profile[j], ev.flow_rate) ELSE profile[j]]

\* lines 47-63: the loop over the events
RECURSIVE EventLoop(_, _, _, _)
EventLoop(profile, evs, k, time_step) ==
    IF k > Len(evs) THEN profile
    ELSE EventLoop(AddEvent(profile, evs[k], time_step), evs, k + 1, time_step)

\* DHW.dhw_profile, lines 40-66, for the events the random generator yields
dhw_profile(total_steps, time_step, evs) ==
    EventLoop(zeros(total_steps), evs, 1, time_step)

\* most events of one profile
MaxEvents == 2

\* most successive calls of the generator
MaxGenerations == 2

\* bins of the generated profile
ProfileSteps == 4

\* seconds per bin
ProfileTimeStep == 60

EventStarts == { I(-90), I(-30), I(30), I(70), I(130) }

EventDurations == { I(20), I(60), I(100) }

EventFlows == { Norm(3, 10), Norm(1, 2) }

Events ==
    [start_time : EventStarts, duration : EventDurations, flow_rate : EventFlows]

\* the draws of one generation
EventSeqs == UNION { [1..n -> Events] : n \in 0..MaxEvents }

\* states the generator may have been left in by earlier draws
RngStates == { -1, 0, DrawsOf(1) }

\* the program as constructed, and the events one generation will draw
DHWInit ==
    /\ inputValues = InputData(<<K(31315), K(33315)>>, K(31815), <<Zero, Zero>>,
                               I(2), Zero, I(200), <<I(1800), 2>>)
    /\ interpolated_data = [base |-> K(28000), slope |-> Zero]
    /\ fit_a = I(3) /\ fit_b = Zero
    /\ DHW = TRUE
    /\ T_off = None /\ T_on = None /\ total_time = None /\ num_points = 0
    /\ time_values = None /\ step_size = None /\ T_inlet = None
    /\ initial_tank_temp = None /\ initial_pump_status = "none"
    /\ pc = "idle" /\ i = 0
    /\ pump_status = "none"
    /\ Ttank_values = None /\ cop_values = None /\ heat_load_values = None
    /\ heat_loss_values = None /\ Pin_values = None /\ Qtransfer_values = None
    /\ QDHW_values = None /\ dhw_interp_profile = None /\ Atank = None
    /\ status_values = None /\ QDHW_step = None
    /\ time_hours = None /\ QDHWReturn = None
    /\ total_energy = None /\ total_qtransfer = None /\ hl_tot = None
    /\ total_eff = None /\ max_out = None
    /\ raised = "none"
    /\ results_file = NoFile
    /\ runs = 0
    /\ fn = "none" /\ result = None
    /\ arg_values = None /\ arg_times = None
    /\ ValueType = "none" /\ ValueName = "none"
    /\ events \in EventSeqs
    /\ rng \in RngStates /\ generations = 0

\* the events the generator yields from `state`: those of the seed's stream
\* from its start, and whatever that state holds from any other
Draws(state) == IF state = 0 THEN { events } ELSE EventSeqs

\* DHW.dhw_profile()
CallDhwProfile ==
    /\ generations < MaxGenerations
    /\ fn' = "dhw_profile"
    /\ LET seeded == np_random_seed(rng, Seed)
       IN  \E evs \in Draws(seeded) :
              /\ result' = dhw_profile(ProfileSteps, ProfileTimeStep, evs)
              /\ rng' = Advance(seeded, DrawsOf(Len(evs)))
    /\ generations' = generations + 1
    /\ UNCHANGED <<objvars, selfvars, pc, loopvars, time_hours, QDHWReturn, perfvars,
                   raised, results_file, runs, arg_values, arg_times, ValueType,
                   ValueName, events>>

DHWNext == CallDhwProfile

SpecDHW == DHWInit /\ [][DHWNext]_vars

\* event ev spans bin j: the bin [j, j+1) * time_step meets [start, start + duration)
Spans(ev, j) ==
    /\ Lt(ev.start_time, I((j + 1) * ProfileTimeStep))
    /\ Gt(Add(ev.start_time, ev.duration), I(j * ProfileTimeStep))

\* the sum of the flow rates of the first k events that span bin j
RECURSIVE FlowOver(_, _)
FlowOver(j, k) ==
    IF k = 0 THEN Zero
    ELSE Add(FlowOver(j, k - 1),
             IF Spans(events[k], j) THEN events[k].flow_rate ELSE Zero)

\* C20 as stated: each bin of the generated profile holds the sum of the flow
\* rates of all events that span it, events shorter than a bin and events that
\* begin before time 0 included.
C20_AsStated ==
    fn = "dhw_profile" =>
      \A j \in 0..(ProfileSteps - 1) : result[j] = FlowOver(j, Len(events))

\* C21: generating the DHW profile is deterministic: every call seeds the
\* generator first, so a call yields the profile of the seed's stream whatever
\* state the generator was in, and two successive calls yield identical arrays,
\* however many generations came before.
C21_SeededGeneration ==
    [][ generations' = generations + 1 =>
          /\ result' = dhw_profile(ProfileSteps, ProfileTimeStep, events)
          /\ fn = "dhw_profile" => result' = result
          /\ rng' = DrawsOf(Len(events))
      ]_vars

\* a second generation, of a profile with a draw-off in it, the first of them
\* having left the generator advanced
C21_Witness ==
    /\ fn = "dhw_profile"
    /\ generations = MaxGenerations
    /\ rng > 0
    /\ Len(events) = MaxEvents
    /\ \E j \in DOMAIN result : result[j] # Zero

\* ------------------------------------------------- successive runs

\* the stored record is of a run made with the DHW flag as it is now
StoredWithSameFlag ==
    /\ results_file.exists
    /\ (results_file.Domestic_Hot_Water_Loss.kind = "series") = DHW

\* C22: nothing of a run persists into the next: a run made with the same
\* parameters, ambient profile, performance model and DHW flag as an earlier one
\* produces the same time series and totals (it stores an identical record and
\* cannot fail where the earlier one succeeded), and no step modifies the
\* parameter set.
C22_RunsIndependent ==
    [][ /\ inputValues' = inputValues
        /\ (pc = "store" /\ StoredWithSameFlag) => results_file' = results_file
        /\ (runs' = runs + 1 /\ raised' # "none") => ~StoredWithSameFlag
      ]_vars

\* a second run with the DHW flag set, heat drawn from the tank and the pump
\* in use, about to store the record the first run has stored
C22_Witness ==
    /\ pc = "store" /\ runs = 1
    /\ DHW /\ StoredWithSameFlag
    /\ ResultRecord = results_file
    /\ \E k \in DOMAIN Pin_values : Gt(Pin_values[k], Zero)
    /\ \E k \in DOMAIN QDHW_step : Gt(QDHW_step[k], Zero)

\* C27: simulate() writes the result record only after euler and
\* calculate_performance have both returned: the record changes only in
\* store_values, reached from a calculate_performance that completed, and is
\* then the complete record of that run; a run that fails leaves the record
\* of the previous run as it was.
C27_StoreOnlyAfterSuccess ==
    [][ /\ results_file' # results_file =>
              /\ pc = "store" /\ pc' = "idle"
              /\ raised = "none"
              /\ results_file' = ResultRecord
              /\ total_eff # None /\ max_out # None /\ total_energy # None
              /\ DOMAIN results_file'.temperature = 0..(num_points - 1)
        /\ pc' = "store" => (pc = "performance" /\ raised' = "none")
        /\ pc' = "performance" => (pc = "euler" /\ i >= num_points)
        /\ (raised' # "none" /\ runs' = runs + 1) =>
              (pc' = "idle" /\ results_file' = results_file)
      ]_vars

\* a second run that failed after a first run had stored its record
C27_Witness ==
    /\ pc = "idle" /\ runs = 2
    /\ raised # "none"
    /\ results_file.exists

\* ------------------------------------------------- maximum output and mode bounds

\* index a holds a largest element of series xs
IsMaxAt(xs, a) == ~IsNaN(xs[a]) /\ \A k \in DOMAIN xs : ~Gt(xs[k], xs[a])

\* C23: the maximum thermal output of a run is max(power) * max(COP), the two
\* maxima taken independently over the whole series, index 0 included; it is
\* not the largest product power[i] * COP[i].
C23_ProductOfMaxima ==
    pc = "store" =>
      \E a \in DOMAIN Pin_values, b \in DOMAIN cop_values :
         /\ IsMaxAt(Pin_values, a) /\ IsMaxAt(cop_values, b)
         /\ max_out = Mul(Pin_values[a], cop_values[b])

\* a run whose largest power input and largest COP lie at different indices,
\* so that no index has the product reported
C23_Witness ==
    /\ pc = "store"
    /\ IsFinite(max_out) /\ max_out # Zero
    /\ \A k \in DOMAIN Pin_values : Mul(Pin_values[k], cop_values[k]) # max_out
    /\ \E a \in DOMAIN Pin_values, b \in DOMAIN cop_values :
         a # b /\ IsMaxAt(Pin_values, a) /\ IsMaxAt(cop_values, b)

\* C24: with T_on < T_off, after the mode update of every step k: mode 'on'
\* implies T[k-1] < T_off, and mode 'off' implies T[k-1] > T_on.
C24_ModeWithinThresholds ==
    (InRun /\ Lt(T_on, T_off)) =>
      \A k \in StepsDone :
        /\ status_values[k] = "on" => Lt(Ttank_values[k - 1], T_off)
        /\ status_values[k] = "off" => Gt(Ttank_values[k - 1], T_on)

\* a run with ordered thresholds whose tank overshot T_off at the end of a
\* step with the pump on, and that had an 'off' step ending below T_on
C24_Witness ==
    /\ InRun /\ Lt(T_on, T_off)
    /\ \E k \in StepsDone :
          /\ status_values[k] = "on"
          /\ Gt(Ttank_values[k], T_off)
    /\ \E k \in StepsDone :
          /\ status_values[k] = "off"
          /\ Lt(Ttank_values[k], T_on)

\* C25: with T_on >= T_off the 'off' test comes first: every step whose
\* previous-step temperature is >= T_off has mode 'off', also when that
\* temperature is <= T_on.
C25_OffHasPriority ==
    (InRun /\ Ge(T_on, T_off)) =>
      \A k \in StepsDone :
        Ge(Ttank_values[k - 1], T_off) => status_values[k] = "off"

\* a run with T_on >= T_off and a step starting inside [T_off, T_on], the pump
\* on before the step and off in it
C25_Witness ==
    /\ InRun /\ Ge(T_on, T_off)
    /\ \E k \in StepsDone :
          /\ Ge(Ttank_values[k - 1], T_off) /\ Le(Ttank_values[k - 1], T_on)
          /\ StatusBefore(k) = "on"
          /\ status_values[k] = "off"

\* C26: with T_on < T_off <= T_cond, U_cond * A_cond >= 0 and a positive COP
\* whenever the pump is on, the recorded heat transfer and power input are
\* non-negative at every index.
C26_NonNegativeTransferAndPower ==
    (/\ InRun
     /\ Lt(T_on, T_off)
     /\ Le(T_off, P("heat_pump", "fixed_condenser_temperature_K"))
     /\ Ge(Mul(P("heat_pump", "overall_heat_transfer_coefficient"),
               P("heat_pump", "heat_transfer_area")), Zero)
     /\ \A k \in StepsDone : status_values[k] = "on" => Gt(cop_values[k], Zero)) =>
      \A k \in DOMAIN Qtransfer_values :
        Ge(Qtransfer_values[k], Zero) /\ Ge(Pin_values[k], Zero)

\* a run under those conditions whose tank, heated with the pump on, went above
\* the condenser temperature, the pump then being off
C26_Witness ==
    /\ InRun
    /\ Lt(T_on, T_off)
    /\ Le(T_off, P("heat_pump", "fixed_condenser_temperature_K"))
    /\ \A k \in StepsDone : status_values[k] = "on" => Gt(cop_values[k], Zero)
    /\ \E k \in StepsDone :
          /\ status_values[k] = "on"
          /\ Gt(Qtransfer_values[k], Zero) /\ Gt(Pin_values[k], Zero)
          /\ k + 1 \in StepsDone
          /\ Gt(Ttank_values[k], P("heat_pump", "fixed_condenser_temperature_K"))
          /\ status_values[k + 1] = "off"

====
